---- MODULE Spec2Model ----
(***************************************************************************)
(* Chunked remote-inference pipelines of the repository:                   *)
(*   - OpenAIWhisperParser.lazy_parse   (document_loaders/parsers/audio.py)*)
(*   - LayoutAnalysisParser.lazy_parse  (langchain_upstage/parsers.py and  *)
(*     langchain_upstage/layout_analysis_parsers.py, two near-duplicates)  *)
(*   - LayoutAnalysisParser._page_document as a pure function              *)
(* Each generator is a state machine whose position is a pc variable; the  *)
(* backends are the environment and answer nondeterministically.           *)
(***************************************************************************)
EXTENDS Integers, Sequences, FiniteSets, TLC

VARIABLES
    \* ---- OpenAIWhisperParser.lazy_parse ----
    audio_len,      \* len(audio), milliseconds
    threshold,      \* self.chunk_duration_threshold, in milliseconds
    source,         \* blob.source ("None" stands for None)
    a_pc,           \* position of the generator
    split_number,   \* enumerate() index of the for loop
    attempts,       \* attempts
    file_obj,       \* the BytesIO of the current chunk
    a_chunks,       \* chunks the for loop has visited, in order
    a_calls,        \* transcription calls made, in order
    a_docs,         \* Documents yielded, in order
    slept,          \* seconds spent in time.sleep
    \* ---- LayoutAnalysisParser.lazy_parse ----
    impl,           \* which of the two parser modules runs
    split,          \* self.split
    output_type,    \* self.output_type
    is_pdf,         \* full_docs.is_pdf
    number_of_pages,\* full_docs.page_count
    page_batch_size,\* page_batch_size / split_pages (the local variable)
    l_pc,           \* position of the generator
    start_page,     \* start_page
    iter,           \* iterations of "for _ in range(number_of_pages)" begun
    result,         \* result (the accumulator of split == "none")
    response,       \* <<response>> once the local variable is bound, else <<>>
    pending,        \* Documents of the current chunk not yet yielded
    l_calls,        \* remote calls made, in order
    l_docs,         \* Documents yielded, in order
    l_err,          \* the exception that left the generator, "" if none
    entry,          \* how the run is started: lazy_parse, load or lazy_load
    api_key,        \* the constructor's api_key argument
    env_key,        \* the environment variable holding the key
    file_exists,    \* os.path.exists of the input path
    self_api_key,   \* self.api_key
    pulls,          \* times the caller has asked the generator for a record
    batch_arg,      \* the batch size lazy_parse was called with
    \* ---- _page_document as a function ----
    pd_pc, pd_type, pd_elements, pd_docs,
    \* ---- an earlier run on the same input ----
    prev,           \* calls and Documents of the run before this one
    \* ---- OpenAIWhisperParserLocal / FasterWhisperParser .lazy_parse ----
    w_parser,       \* which of the two classes runs
    w_blob,         \* what the blob holds: "bytes", "path" or "neither"
    w_source,       \* blob.source
    w_pc,           \* position of the generator
    w_calls,        \* outcomes of the model invocations made, in order
    w_segments,     \* texts the model returned that are not yet yielded
    w_docs,         \* Documents yielded, in order
    w_err,          \* the exception that left the generator, "" if none
    \* ---- YandexSTTParser ----
    y_api_key,      \* the constructor's api_key argument
    y_iam_token,    \* the constructor's iam_token argument
    y_pc,           \* position: before __init__, constructed, in lazy_parse
    y_self,         \* <<[api_key, iam_token]>> once __init__ has set them
    y_creds,        \* <<credentials>> once configure_credentials was called
    y_results,      \* utterances of model.transcribe not yet yielded
    y_docs,         \* Documents yielded, in order
    y_err           \* the exception raised, "" if none

avars == <<audio_len, threshold, source, a_pc, split_number, attempts,
           file_obj, a_chunks, a_calls, a_docs, slept>>
lvars == <<impl, split, output_type, is_pdf, number_of_pages, page_batch_size,
           l_pc, start_page, iter, result, response, pending, l_calls,
           l_docs, l_err, entry, api_key, env_key, file_exists, self_api_key,
           pulls, batch_arg>>
pvars == <<pd_pc, pd_type, pd_elements, pd_docs>>
rvars == <<prev>>
wvars == <<w_parser, w_blob, w_source, w_pc, w_calls, w_segments, w_docs,
           w_err>>
yvars == <<y_api_key, y_iam_token, y_pc, y_self, y_creds, y_results, y_docs,
           y_err>>
ovars == <<wvars, yvars>>
vars == <<avars, lvars, pvars, rvars, ovars>>

Min(a, b) == IF a <= b THEN a ELSE b
Max(a, b) == IF a >= b THEN a ELSE b

(***************************************************************************)
(* Bounds of the model.                                                    *)
(***************************************************************************)
MaxFullChunks == 2      \* whole 20-minute chunks an audio input may hold
MaxSegments == 3        \* segments one local transcription returns
MaxElems == 3           \* elements the layout backend returns over one run
MaxChunks == 3          \* remote calls of one layout run
MaxPdElems == 3         \* elements handed to _page_document on its own

(***************************************************************************)
(* OpenAIWhisperParser.lazy_parse                                          *)
(***************************************************************************)
chunk_duration == 20
chunk_duration_ms == chunk_duration * 60 * 1000
MaxAttempts == 3
SleepSeconds == 5

\* Tails of the input after its whole chunks, in ms (300000 ms: 45 minutes
\* of audio are two whole chunks and five minutes).
Remainders == {0, 1, 100, 101, 300000}
Extents == {k * chunk_duration_ms + r : k \in 0..MaxFullChunks, r \in Remainders}
\* 0.1 s is the default; 1200 s is a whole chunk.
Thresholds == {0, 100, chunk_duration_ms}
Sources == {"None", "talk.m4a"}

NoFile == [name |-> "", start |-> 0, length |-> 0, pos |-> 0]

\* variant: range(0, len(audio) - chunk_duration_ms + 1, chunk_duration_ms),
\* the loop stops before a tail shorter than a whole chunk
RangeHasWholeOnly(k) == k * chunk_duration_ms + chunk_duration_ms <= audio_len

\* range(0, len(audio), chunk_duration_ms): the start of iteration k.
RangeStart(k) == k * chunk_duration_ms
RangeHas(k) == RangeStart(k) < audio_len

\* audio[i : j]: a slice is cut at the end of the audio.
Slice(i, j) == [start |-> Min(i, audio_len),
                length |-> Max(Min(j, audio_len) - Min(i, audio_len), 0)]

Chunk(k) == Slice(RangeStart(k), RangeStart(k) + chunk_duration_ms)

\* variant: the comparison is strict, a chunk of exactly the threshold is kept
TooShortStrict(chunk) == chunk.length < threshold

\* chunk.duration_seconds <= self.chunk_duration_threshold (both in ms here)
TooShort(chunk) == chunk.length <= threshold

\* variant: the name counts parts from 1, as the progress message does
PartNameOneBased(n) ==
    IF source # "None" THEN source \o "_part_" \o ToString(n + 1) \o ".mp3"
    ELSE "part_" \o ToString(n + 1) \o ".mp3"

\* file_obj.name
PartName(n) ==
    IF source # "None" THEN source \o "_part_" \o ToString(n) \o ".mp3"
    ELSE "part_" \o ToString(n) \o ".mp3"

\* variant: while attempts <= 3
RetryAllowedOneMore(n) == n <= MaxAttempts

\* while attempts < 3
RetryAllowed(n) == n < MaxAttempts

\* The transcription backend: the text of what the stream still holds.
Transcribe(f) ==
    "text@" \o ToString(f.start + f.pos) \o "+" \o ToString(f.length - f.pos)

InitAudioVars ==
    /\ audio_len \in Extents
    /\ threshold \in Thresholds
    /\ source \in Sources
    /\ a_pc = "loop"
    /\ split_number = 0
    /\ attempts = 0
    /\ file_obj = NoFile
    /\ a_chunks = <<>>
    /\ a_calls = <<>>
    /\ a_docs = <<>>
    /\ slept = 0

IdleAudioVars ==
    /\ audio_len = 0
    /\ threshold = 0
    /\ source = "None"
    /\ a_pc = "off"
    /\ split_number = 0
    /\ attempts = 0
    /\ file_obj = NoFile
    /\ a_chunks = <<>>
    /\ a_calls = <<>>
    /\ a_docs = <<>>
    /\ slept = 0

\* for ...: chunk = audio[i : i + chunk_duration_ms]; too short: continue
AudioSkipShort ==
    /\ UNCHANGED <<lvars, pvars, rvars, ovars>>
    /\ a_pc = "loop"
    /\ RangeHas(split_number)
    /\ TooShort(Chunk(split_number))
    /\ a_chunks' = Append(a_chunks,
          [index |-> split_number, start |-> Chunk(split_number).start,
           length |-> Chunk(split_number).length, kept |-> FALSE])
    /\ split_number' = split_number + 1
    /\ UNCHANGED <<audio_len, threshold, source, a_pc, attempts, file_obj,
                   a_calls, a_docs, slept>>

\* for ...: the chunk is exported into file_obj and named; attempts = 0
AudioMaterialize ==
    /\ UNCHANGED <<lvars, pvars, rvars, ovars>>
    /\ a_pc = "loop"
    /\ RangeHas(split_number)
    /\ ~TooShort(Chunk(split_number))
    /\ a_chunks' = Append(a_chunks,
          [index |-> split_number, start |-> Chunk(split_number).start,
           length |-> Chunk(split_number).length, kept |-> TRUE])
    /\ file_obj' = [name |-> PartName(split_number),
                    start |-> Chunk(split_number).start,
                    length |-> Chunk(split_number).length,
                    pos |-> 0]
    /\ attempts' = 0
    /\ a_pc' = "attempt"
    /\ UNCHANGED <<audio_len, threshold, source, split_number, a_calls,
                   a_docs, slept>>

CallOf(ok) ==
    [chunk |-> split_number, name |-> file_obj.name, start |-> file_obj.start,
     length |-> file_obj.length, pos |-> file_obj.pos, ok |-> ok]

\* what a transcription call sends: the named stream from its position on
AudioRequest(c) ==
    [name |-> c.name, start |-> c.start, length |-> c.length, pos |-> c.pos]

\* the next transcription call sends what the call at the same place of the
\* earlier run sent
AudioRepeated(req) ==
    /\ prev.ran
    /\ Len(a_calls) < Len(prev.calls)
    /\ AudioRequest(prev.calls[Len(a_calls) + 1]) = req

\* success or failure the backend may answer with: either, but the earlier
\* one for a repeated request
Outcomes(req) ==
    IF AudioRepeated(req) THEN {prev.calls[Len(a_calls) + 1].ok} ELSE BOOLEAN

\* where a failed call leaves the stream: as the earlier run's next attempt
\* on the chunk found it, when the request is a repeated one
StreamLeftAt(req, free) ==
    IF /\ AudioRepeated(req)
       /\ Len(a_calls) + 2 <= Len(prev.calls)
       /\ prev.calls[Len(a_calls) + 2].chunk = split_number
    THEN {prev.calls[Len(a_calls) + 2].pos}
    ELSE free

\* variant: the record is numbered by its place among the records
AudioTranscribeOkRenumbered ==
    /\ UNCHANGED <<lvars, pvars, rvars, ovars>>
    /\ a_pc = "attempt"
    /\ RetryAllowed(attempts)
    /\ TRUE \in Outcomes(AudioRequest(CallOf(TRUE)))
    /\ a_calls' = Append(a_calls, CallOf(TRUE))
    /\ a_docs' = Append(a_docs,
          [page_content |-> Transcribe(file_obj), source |-> source,
           chunk |-> Len(a_docs)])
    /\ split_number' = split_number + 1
    /\ a_pc' = "loop"
    /\ UNCHANGED <<audio_len, threshold, source, attempts, file_obj,
                   a_chunks, slept>>

\* try: transcript = ...create(file=file_obj); break; then the yield
AudioTranscribeOk ==
    /\ UNCHANGED <<lvars, pvars, rvars, ovars>>
    /\ a_pc = "attempt"
    /\ RetryAllowed(attempts)
    /\ TRUE \in Outcomes(AudioRequest(CallOf(TRUE)))
    /\ a_calls' = Append(a_calls, CallOf(TRUE))
    /\ a_docs' = Append(a_docs,
          [page_content |-> Transcribe(file_obj), source |-> source,
           chunk |-> split_number])
    /\ split_number' = split_number + 1
    /\ a_pc' = "loop"
    /\ UNCHANGED <<audio_len, threshold, source, attempts, file_obj,
                   a_chunks, slept>>

\* variant: the delay is taken only between attempts, not after the last one
AudioTranscribeFailSleepsBetween ==
    /\ UNCHANGED <<lvars, pvars, rvars, ovars>>
    /\ a_pc = "attempt"
    /\ RetryAllowed(attempts)
    /\ FALSE \in Outcomes(AudioRequest(CallOf(FALSE)))
    /\ a_calls' = Append(a_calls, CallOf(FALSE))
    /\ attempts' = attempts + 1
    /\ slept' = IF RetryAllowed(attempts + 1) THEN slept + SleepSeconds ELSE slept
    /\ \E p \in StreamLeftAt(AudioRequest(CallOf(FALSE)),
                            {file_obj.pos, file_obj.length}) :
          file_obj' = [file_obj EXCEPT !.pos = p]
    /\ UNCHANGED <<audio_len, threshold, source, a_pc, split_number,
                   a_chunks, a_docs>>

\* except Exception: attempts += 1; time.sleep(5).  The failed call may or
\* may not have read the stream to its end.
AudioTranscribeFail ==
    /\ UNCHANGED <<lvars, pvars, rvars, ovars>>
    /\ a_pc = "attempt"
    /\ RetryAllowed(attempts)
    /\ FALSE \in Outcomes(AudioRequest(CallOf(FALSE)))
    /\ a_calls' = Append(a_calls, CallOf(FALSE))
    /\ attempts' = attempts + 1
    /\ slept' = slept + SleepSeconds
    /\ \E p \in StreamLeftAt(AudioRequest(CallOf(FALSE)),
                            {file_obj.pos, file_obj.length}) :
          file_obj' = [file_obj EXCEPT !.pos = p]
    /\ UNCHANGED <<audio_len, threshold, source, a_pc, split_number,
                   a_chunks, a_docs>>

\* variant: the else branch ends the loop (break) instead of continue
AudioExhaustedStops ==
    /\ UNCHANGED <<lvars, pvars, rvars, ovars>>
    /\ a_pc = "attempt"
    /\ ~RetryAllowed(attempts)
    /\ a_pc' = "done"
    /\ UNCHANGED <<audio_len, threshold, source, split_number, attempts,
                   file_obj, a_chunks, a_calls, a_docs, slept>>

\* while ... else: print("Failed to transcribe after 3 attempts."); continue
AudioExhausted ==
    /\ UNCHANGED <<lvars, pvars, rvars, ovars>>
    /\ a_pc = "attempt"
    /\ ~RetryAllowed(attempts)
    /\ split_number' = split_number + 1
    /\ a_pc' = "loop"
    /\ UNCHANGED <<audio_len, threshold, source, attempts, file_obj,
                   a_chunks, a_calls, a_docs, slept>>

\* the range is used up: the generator returns
AudioLoopEnd ==
    /\ UNCHANGED <<lvars, pvars, rvars, ovars>>
    /\ a_pc = "loop"
    /\ ~RangeHas(split_number)
    /\ a_pc' = "done"
    /\ UNCHANGED <<audio_len, threshold, source, split_number, attempts,
                   file_obj, a_chunks, a_calls, a_docs, slept>>

NextAudio ==
    \/ AudioSkipShort
    \/ AudioMaterialize
    \/ AudioTranscribeOk
    \/ AudioTranscribeFail
    \/ AudioExhausted
    \/ AudioLoopEnd

(***************************************************************************)
(* LayoutAnalysisParser (parsers.py and layout_analysis_parsers.py)        *)
(***************************************************************************)
LIMIT_OF_PAGE_REQUEST == 10
DEFAULT_PAGE_BATCH_SIZE == 10

Impls == {"parsers", "layout_analysis_parsers"}
Splits == {"none", "element", "page"}
\* values the split argument is given; "paragraph" is none of the three
SplitArgs == Splits \cup {"paragraph"}
\* the three ways a layout run is started
Entries == {"lazy_parse", "load", "lazy_load"}
\* api_key=None, and an environment without the variable
NoneArg == "<None>"
Unset == "<unset>"
OutputTypes == {"text", "html"}
PageCounts == {0, 1, 2, 3, 4, 10, 11, 25}
\* the argument is an unvalidated int: 0 and negative values reach the loop
BatchSizes == {-1, 0, 1, 2, 10}
PageLabels == {1, 2}

\* page_batch_size = DEFAULT_PAGE_BATCH_SIZE / split_pages = LIMIT_OF_PAGE_REQUEST
BatchLimit(m) ==
    IF m = "parsers" THEN LIMIT_OF_PAGE_REQUEST ELSE DEFAULT_PAGE_BATCH_SIZE

\* variant: to_page is not cut to the last page of the document
InsertPdfUncut(n, from_page, to_page) ==
    [start |-> from_page, length |-> to_page - from_page + 1]

\* chunk_pdf.insert_pdf(full_docs, from_page=, to_page=): the pages copied.
\* PyMuPDF normalises the range: from_page is cut to [0, n - 1], a negative
\* to_page means the last page and to_page is cut to n - 1.
InsertPdf(n, from_page, to_page) ==
    LET fp == Min(Max(from_page, 0), n - 1)
        tp == IF to_page < 0 THEN n - 1 ELSE Min(to_page, n - 1)
    IN  [start |-> Min(fp, tp), length |-> Max(fp, tp) - Min(fp, tp) + 1]

\* _split_and_request: the request built for the chunk at start_page
SplitAndRequest(n, sp, batch) ==
    [from_page |-> sp, to_page |-> sp + batch - 1,
     start |-> InsertPdf(n, sp, sp + batch - 1).start,
     length |-> InsertPdf(n, sp, sp + batch - 1).length]

\* files = {"document": open(blob.path, "rb")}: the whole file
WholeFile(n) == [from_page |-> 0, to_page |-> n - 1, start |-> 0, length |-> n]

\* ---- the backend: what it may answer to a request ----
ChunkText(req) == "T" \o ToString(req.start) \o ";"
ChunkHtml(req) == "<T" \o ToString(req.start) \o ">"
ElemText(req, id) == "p" \o ToString(req.start) \o "e" \o ToString(id)
ElemHtml(req, id) == "<p" \o ToString(req.start) \o "e" \o ToString(id) \o ">"

\* lists of at most room elements; the backend numbers them from 0
ElementLists(req, room) ==
    UNION {
      { [i \in 1..n |-> [page |-> pg[i], id |-> i - 1,
                         text |-> ElemText(req, i - 1),
                         html |-> ElemHtml(req, i - 1)]]
        : pg \in [1..n -> PageLabels] }
      : n \in 0..room }

\* billed_pages: the pages of the request, or one less when the backend
\* rejects a page
BilledChoices(req) == {req.length, Max(req.length - 1, 0)}

Responses(req, sp, room) ==
    IF sp = "none"
    THEN { [text |-> ChunkText(req), html |-> ChunkHtml(req),
            billed_pages |-> b, elements |-> <<>>] : b \in BilledChoices(req) }
    ELSE { [text |-> ChunkText(req), html |-> ChunkHtml(req),
            billed_pages |-> req.length, elements |-> es]
           : es \in ElementLists(req, room) }

NoResponse == [text |-> "", html |-> "", billed_pages |-> 0, elements |-> <<>>]

RECURSIVE ElementCount(_)
\* elements the backend has returned so far
ElementCount(calls) ==
    IF calls = <<>> THEN 0
    ELSE Len(Head(calls).resp.elements) + ElementCount(Tail(calls))

Failures == {"request_error", "decode_error"}

\* _get_response: the exceptions a failed call can leave it with.
\* parsers.py: a request error propagates, a decode error becomes ValueError.
\* layout_analysis_parsers.py: a request error is printed and "return result"
\* then reads an unbound local; a decode error becomes ValueError, unless the
\* installed requests raises a JSONDecodeError that is also a
\* RequestException, which the first except clause takes.
GetResponseRaises(m, failure) ==
    IF m = "parsers"
    THEN IF failure = "decode_error" THEN {"ValueError"}
         ELSE {"RequestException"}
    ELSE IF failure = "decode_error" THEN {"ValueError", "UnboundLocalError"}
         ELSE {"UnboundLocalError"}

\* variant: the handle is closed after the request inside the try body, not
\* in a finally clause
ClosesDocumentOnReturn(failure) == failure = ""

\* finally: if "document" in files and not files["document"].closed: close()
\* -- whether the handle is closed when _get_response is left, "" for a return
ClosesDocument(failure) == TRUE

\* handles of earlier calls that are still open
OpenHandles(calls) ==
    Cardinality({i \in 1..Len(calls) : ~calls[i].closed})

\* what one call of _get_response leaves behind besides its response
GetResponseEffect(failure) ==
    [failure |-> failure, closed |-> ClosesDocument(failure),
     open_before |-> OpenHandles(l_calls), pull |-> pulls]

\* ---- assembling ----
parse_output(data, otype) ==
    IF otype = "text" THEN data.text ELSE data.html

_element_document(element, otype, sp) ==
    [page_content |-> parse_output(element, otype),
     page |-> element.page, id |-> element.id, type |-> otype, split |-> sp]

SetMin(S) == CHOOSE x \in S : \A y \in S : x <= y

RECURSIVE Sorted(_)
\* sorted(set(...))
Sorted(S) == IF S = {} THEN <<>>
             ELSE <<SetMin(S)>> \o Sorted(S \ {SetMin(S)})

RECURSIVE Join(_, _)
\* sep.join(strs)
Join(strs, sep) ==
    IF Len(strs) = 0 THEN ""
    ELSE IF Len(strs) = 1 THEN strs[1]
    ELSE strs[1] \o sep \o Join(Tail(strs), sep)

RECURSIVE FirstSeen(_, _)
FirstSeen(elements, seen) ==
    IF elements = <<>> THEN <<>>
    ELSE IF Head(elements).page \in seen THEN FirstSeen(Tail(elements), seen)
    ELSE <<Head(elements).page>>
         \o FirstSeen(Tail(elements), seen \cup {Head(elements).page})

\* variant: the pages are taken in the order of their first element, unsorted
PagesOfFirstSeen(elements) == FirstSeen(elements, {})

\* pages = sorted(set(map(lambda x: x["page"], elements)))
PagesOf(elements) == Sorted({elements[i].page : i \in 1..Len(elements)})

\* [element for element in elements if element["page"] == x]
PageGroup(elements, x) == SelectSeq(elements, LAMBDA e : e.page = x)

GroupContent(group, otype) ==
    Join([i \in 1..Len(group) |-> parse_output(group[i], otype)], " ")

_page_document(elements, otype, sp) ==
    LET pages == PagesOf(elements)
    IN  [k \in 1..Len(pages) |->
           [page_content |-> GroupContent(PageGroup(elements, pages[k]), otype),
            page |-> PageGroup(elements, pages[k])[1].page,
            type |-> otype, split |-> sp]]

\* variant: the elements of a response are walked from the last to the first
ElementDocsReversed(elements, otype, sp) ==
    [i \in 1..Len(elements) |->
        _element_document(elements[Len(elements) + 1 - i], otype, sp)]

ElementDocs(elements, otype, sp) ==
    [i \in 1..Len(elements) |-> _element_document(elements[i], otype, sp)]

\* metadata["total_pages"] of the split == "none" record
TotalPages(m, n, resp) ==
    IF m = "parsers" THEN resp[1].billed_pages ELSE n

\* variant: result = parse_output(...), the chunk replaces the accumulator
AccumulateOverwrite(res, piece) == piece

\* result += parse_output(response, self.output_type)
Accumulate(res, piece) == res \o piece

\* ---- the generator ----
\* calls a run with this input makes when nothing fails: start_page reaches
\* number_of_pages after ceil(n / batch) chunks, and never when batch <= 0,
\* where range(number_of_pages) ends the loop
PlannedCalls(n, batch) == IF batch > 0 THEN (n + batch - 1) \div batch ELSE n

EffectiveBatch(m, sp, batch) == IF sp = "none" THEN BatchLimit(m) ELSE batch

\* LayoutAnalysis.load passes split_pages=LIMIT_OF_PAGE_REQUEST, lazy_load
\* leaves the default of 1; both use the parser of parsers.py.  A direct call
\* of lazy_parse chooses the module and the batch size.
EntryFits(e, m, batch) ==
    /\ e = "load" => m = "parsers" /\ batch = LIMIT_OF_PAGE_REQUEST
    /\ e = "lazy_load" => m = "parsers" /\ batch = 1

\* variant: any split value is taken as one of the three
ValidSplitAny(sp) == TRUE

\* if self.split == "none" ... elif "element" ... elif "page" ... else: raise
ValidSplit(sp) == sp \in Splits

(***************************************************************************)
(* OpenAIWhisperParserLocal.lazy_parse and FasterWhisperParser.lazy_parse: *)
(* the model runs in the process.                                          *)
(***************************************************************************)
LocalParsers == {"OpenAIWhisperParserLocal", "FasterWhisperParser"}
BlobKinds == {"bytes", "path", "neither"}
SegmentTexts == {"s", "t"}

\* what one invocation of the model returns: the one prediction of the
\* transformers pipeline, or the segments of faster-whisper
RECURSIVE SeqsUpTo(_, _)
SeqsUpTo(S, n) ==
    IF n = 0 THEN {<<>>}
    ELSE SeqsUpTo(S, n - 1) \cup
         {Append(q, x) : q \in {r \in SeqsUpTo(S, n - 1) : Len(r) = n - 1},
                         x \in S}

Predictions(parser) ==
    IF parser = "OpenAIWhisperParserLocal"
    THEN {<<x>> : x \in SegmentTexts}
    ELSE SeqsUpTo(SegmentTexts, MaxSegments)

InitLocalVars ==
    /\ w_parser \in LocalParsers
    /\ w_blob \in (IF w_parser = "FasterWhisperParser" THEN BlobKinds
                   ELSE {"path"})
    /\ w_source \in Sources
    /\ w_pc = "start"
    /\ w_calls = <<>>
    /\ w_segments = <<>>
    /\ w_docs = <<>>
    /\ w_err = ""

IdleLocalVars ==
    /\ w_parser = "OpenAIWhisperParserLocal"
    /\ w_blob = "path"
    /\ w_source = "None"
    /\ w_pc = "off"
    /\ w_calls = <<>>
    /\ w_segments = <<>>
    /\ w_docs = <<>>
    /\ w_err = ""

\* FasterWhisperParser: the blob holds neither bytes nor a path
LocalNoAudio ==
    /\ UNCHANGED <<avars, lvars, pvars, rvars, yvars>>
    /\ w_pc = "start"
    /\ w_blob = "neither"
    /\ w_err' = "ValueError"
    /\ w_pc' = "raised"
    /\ UNCHANGED <<w_parser, w_blob, w_source, w_calls, w_segments, w_docs>>

\* self.pipe(...)["text"] / model.transcribe(file_obj, beam_size=5) returns
LocalTranscribeOk ==
    /\ UNCHANGED <<avars, lvars, pvars, rvars, yvars>>
    /\ w_pc = "start"
    /\ w_blob # "neither"
    /\ w_calls' = Append(w_calls, "ok")
    /\ w_segments' \in Predictions(w_parser)
    /\ w_pc' = "yield"
    /\ UNCHANGED <<w_parser, w_blob, w_source, w_docs, w_err>>

\* variant: the invocation is wrapped in the three-attempt loop of the
\* remote parser
LocalTranscribeFailsRetried ==
    /\ UNCHANGED <<avars, lvars, pvars, rvars, yvars>>
    /\ w_pc = "start"
    /\ w_blob # "neither"
    /\ Len(w_calls) < MaxAttempts
    /\ w_calls' = Append(w_calls, "error")
    /\ UNCHANGED <<w_parser, w_blob, w_source, w_pc, w_segments, w_docs,
                   w_err>>

\* the invocation raises: there is no try around it
LocalTranscribeFails ==
    /\ UNCHANGED <<avars, lvars, pvars, rvars, yvars>>
    /\ w_pc = "start"
    /\ w_blob # "neither"
    /\ w_calls' = Append(w_calls, "error")
    /\ w_err' = "ModelError"
    /\ w_pc' = "raised"
    /\ UNCHANGED <<w_parser, w_blob, w_source, w_segments, w_docs>>

\* yield Document(page_content=prediction / segment.text, ...)
LocalYield ==
    /\ UNCHANGED <<avars, lvars, pvars, rvars, yvars>>
    /\ w_pc = "yield"
    /\ w_segments # <<>>
    /\ w_docs' = Append(w_docs,
          [page_content |-> Head(w_segments), source |-> w_source])
    /\ w_segments' = Tail(w_segments)
    /\ UNCHANGED <<w_parser, w_blob, w_source, w_pc, w_calls, w_err>>

\* for segment in segments: faster-whisper decodes while it is iterated, so
\* the model can also fail between two segments
LocalSegmentFails ==
    /\ UNCHANGED <<avars, lvars, pvars, rvars, yvars>>
    /\ w_pc = "yield"
    /\ w_parser = "FasterWhisperParser"
    /\ w_segments # <<>>
    /\ w_err' = "ModelError"
    /\ w_pc' = "raised"
    /\ UNCHANGED <<w_parser, w_blob, w_source, w_calls, w_segments, w_docs>>

\* the generator returns
LocalEnd ==
    /\ UNCHANGED <<avars, lvars, pvars, rvars, yvars>>
    /\ w_pc = "yield"
    /\ w_segments = <<>>
    /\ w_pc' = "done"
    /\ UNCHANGED <<w_parser, w_blob, w_source, w_calls, w_segments, w_docs,
                   w_err>>

NextLocal ==
    \/ LocalNoAudio
    \/ LocalTranscribeOk
    \/ LocalTranscribeFails
    \/ LocalYield
    \/ LocalSegmentFails
    \/ LocalEnd

(***************************************************************************)
(* YandexSTTParser                                                         *)
(***************************************************************************)
YandexKeys == {NoneArg, "", "key"}
YandexTokens == {NoneArg, "", "token"}

\* if (api_key is None) == (iam_token is None): raise ValueError
YandexArgsRejected(key, token) == (key = NoneArg) = (token = NoneArg)

\* if self.api_key: ... -- None and the empty string are false
Truthy(v) == v \notin {NoneArg, ""}

\* the credentials lazy_parse configures
YandexCredentials(me) ==
    IF Truthy(me.api_key) THEN [kind |-> "api_key", value |-> me.api_key]
    ELSE [kind |-> "iam_token", value |-> me.iam_token]

InitYandexVars ==
    /\ y_api_key \in YandexKeys
    /\ y_iam_token \in YandexTokens
    /\ y_pc = "new"
    /\ y_self = <<>>
    /\ y_creds = <<>>
    /\ y_results = <<>>
    /\ y_docs = <<>>
    /\ y_err = ""

\* __init__ returns
YandexConstruct ==
    /\ UNCHANGED <<avars, lvars, pvars, rvars, wvars>>
    /\ y_pc = "new"
    /\ ~YandexArgsRejected(y_api_key, y_iam_token)
    /\ y_self' = <<[api_key |-> y_api_key, iam_token |-> y_iam_token]>>
    /\ y_pc' = "built"
    /\ UNCHANGED <<y_api_key, y_iam_token, y_creds, y_results, y_docs, y_err>>

\* __init__ raises
YandexConstructRaises ==
    /\ UNCHANGED <<avars, lvars, pvars, rvars, wvars>>
    /\ y_pc = "new"
    /\ YandexArgsRejected(y_api_key, y_iam_token)
    /\ y_err' = "ValueError"
    /\ y_pc' = "raised"
    /\ UNCHANGED <<y_api_key, y_iam_token, y_self, y_creds, y_results, y_docs>>

\* lazy_parse: configure_credentials(...)
YandexConfigure ==
    /\ UNCHANGED <<avars, lvars, pvars, rvars, wvars>>
    /\ y_pc = "built"
    /\ y_creds' = <<YandexCredentials(y_self[1])>>
    /\ y_pc' = "configured"
    /\ UNCHANGED <<y_api_key, y_iam_token, y_self, y_results, y_docs, y_err>>

\* result = model.transcribe(audio)
YandexTranscribe ==
    /\ UNCHANGED <<avars, lvars, pvars, rvars, wvars>>
    /\ y_pc = "configured"
    /\ y_results' \in SeqsUpTo(SegmentTexts, MaxSegments)
    /\ y_pc' = "yield"
    /\ UNCHANGED <<y_api_key, y_iam_token, y_self, y_creds, y_docs, y_err>>

\* model.transcribe(audio) raises: there is no try around it
YandexTranscribeFails ==
    /\ UNCHANGED <<avars, lvars, pvars, rvars, wvars>>
    /\ y_pc = "configured"
    /\ y_err' = "TranscribeError"
    /\ y_pc' = "raised"
    /\ UNCHANGED <<y_api_key, y_iam_token, y_self, y_creds, y_results, y_docs>>

\* for res in result: yield Document(page_content=res.normalized_text, ...)
YandexYield ==
    /\ UNCHANGED <<avars, lvars, pvars, rvars, wvars>>
    /\ y_pc = "yield"
    /\ y_results # <<>>
    /\ y_docs' = Append(y_docs, [page_content |-> Head(y_results)])
    /\ y_results' = Tail(y_results)
    /\ UNCHANGED <<y_api_key, y_iam_token, y_pc, y_self, y_creds, y_err>>

\* the generator returns
YandexEnd ==
    /\ UNCHANGED <<avars, lvars, pvars, rvars, wvars>>
    /\ y_pc = "yield"
    /\ y_results = <<>>
    /\ y_pc' = "done"
    /\ UNCHANGED <<y_api_key, y_iam_token, y_self, y_creds, y_results, y_docs,
                   y_err>>

NextYandex ==
    \/ YandexConstruct
    \/ YandexConstructRaises
    \/ YandexConfigure
    \/ YandexTranscribe
    \/ YandexTranscribeFails
    \/ YandexYield
    \/ YandexEnd

IdleYandexVars ==
    /\ y_api_key = NoneArg
    /\ y_iam_token = NoneArg
    /\ y_pc = "off"
    /\ y_self = <<>>
    /\ y_creds = <<>>
    /\ y_results = <<>>
    /\ y_docs = <<>>
    /\ y_err = ""

(***************************************************************************)
(* A second run on the same input: the backend is a function of the        *)
(* request and of its place in the run, so it repeats what it answered.    *)
(***************************************************************************)
\* no run came before this one
NoPrev == [ran |-> FALSE, calls |-> <<>>, docs |-> <<>>, err |-> ""]
FirstRun == prev = NoPrev

\* what a layout call sends: the pages cut out of the document (the
\* from_page and to_page given to insert_pdf are not part of what is sent)
LayoutRequest(c) == [start |-> c.start, length |-> c.length]

\* the next layout call sends what the call at the same place of the earlier
\* run sent
Repeated(req) ==
    /\ prev.ran
    /\ Len(l_calls) < Len(prev.calls)
    /\ LayoutRequest(prev.calls[Len(l_calls) + 1]) = LayoutRequest(req)

\* responses, failures and raised exceptions the backend and the build may
\* produce for a request: any of `free`, but the earlier one for a repeated
\* request
Answers(req, free) ==
    IF Repeated(req)
    THEN (IF prev.calls[Len(l_calls) + 1].ok
          THEN {prev.calls[Len(l_calls) + 1].resp} ELSE {})
    ELSE free

FailuresOf(req, free) ==
    IF Repeated(req)
    THEN (IF prev.calls[Len(l_calls) + 1].ok
          THEN {} ELSE {prev.calls[Len(l_calls) + 1].failure})
    ELSE free

RaisedBy(req, free) == IF Repeated(req) THEN {prev.err} ELSE free

InitLayoutVars ==
    /\ impl \in Impls
    /\ split \in SplitArgs
    /\ output_type \in OutputTypes
    /\ is_pdf \in BOOLEAN
    /\ number_of_pages \in (IF is_pdf THEN PageCounts ELSE {1})
    /\ page_batch_size \in BatchSizes
    /\ batch_arg = page_batch_size
    /\ entry \in Entries
    /\ EntryFits(entry, impl, page_batch_size)
    /\ api_key = "sk-arg"
    /\ env_key = Unset
    /\ file_exists = TRUE
    /\ self_api_key = "sk-arg"
    /\ PlannedCalls(number_of_pages,
                    EffectiveBatch(impl, split, page_batch_size)) <= MaxChunks
    /\ l_pc = "start"
    /\ start_page = 0
    /\ iter = 0
    /\ result = ""
    /\ response = <<>>
    /\ pending = <<>>
    /\ l_calls = <<>>
    /\ l_docs = <<>>
    /\ l_err = ""
    /\ pulls = 0

IdleLayoutVars ==
    /\ impl = "parsers"
    /\ split = "none"
    /\ output_type = "text"
    /\ is_pdf = TRUE
    /\ number_of_pages = 0
    /\ page_batch_size = 1
    /\ batch_arg = 1
    /\ entry = "lazy_parse"
    /\ api_key = "sk-arg"
    /\ env_key = Unset
    /\ file_exists = TRUE
    /\ self_api_key = "sk-arg"
    /\ l_pc = "off"
    /\ start_page = 0
    /\ iter = 0
    /\ result = ""
    /\ response = <<>>
    /\ pending = <<>>
    /\ l_calls = <<>>
    /\ l_docs = <<>>
    /\ l_err = ""
    /\ pulls = 0

linputs == <<impl, split, output_type, is_pdf, number_of_pages, entry,
             api_key, env_key, file_exists, self_api_key, batch_arg>>

\* variant: once started the generator runs on without being asked
RunningAhead == pulls > 0

\* the generator body runs only inside next(): the caller has asked for one
\* record more than it has been given
Running == pulls > Len(l_docs)

\* next() on the generator (by the caller's loop, by yield from, or by list())
Pull ==
    /\ UNCHANGED <<avars, pvars, rvars, ovars>>
    /\ l_pc \in {"start", "loop", "single", "yield"}
    /\ pulls = Len(l_docs)
    /\ pulls' = pulls + 1
    /\ UNCHANGED <<linputs, page_batch_size, l_pc, start_page, iter, result,
                   response, pending, l_calls, l_docs, l_err>>

\* variant: none mode keeps the batch size it was called with
LStartKeepsBatch ==
    /\ UNCHANGED <<avars, pvars, rvars, ovars>>
    /\ Running
    /\ l_pc = "start"
    /\ file_exists
    /\ ValidSplit(split)
    /\ l_pc' = IF is_pdf THEN "loop" ELSE "single"
    /\ UNCHANGED <<linputs, pulls, page_batch_size, start_page, iter, result,
                   response, pending, l_calls, l_docs, l_err>>

\* the first pull: fitz.open, then the branch on self.split and is_pdf
LStart ==
    /\ UNCHANGED <<avars, pvars, rvars, ovars>>
    /\ Running
    /\ l_pc = "start"
    /\ file_exists
    /\ ValidSplit(split)
    /\ l_pc' = IF is_pdf THEN "loop" ELSE "single"
    /\ page_batch_size' = IF split = "none" /\ is_pdf THEN BatchLimit(impl)
                          ELSE page_batch_size
    /\ UNCHANGED <<linputs, pulls, start_page, iter, result, response, pending,
                   l_calls, l_docs, l_err>>

\* else: raise ValueError(f"Invalid split type: {self.split}"), at the first
\* pull, after fitz.open and before any chunk
InvalidSplit ==
    /\ UNCHANGED <<avars, pvars, rvars, ovars>>
    /\ Running
    /\ l_pc = "start"
    /\ file_exists
    /\ ~ValidSplit(split)
    /\ l_pc' = "raised"
    /\ l_err' = "ValueError"
    /\ UNCHANGED <<linputs, pulls, page_batch_size, start_page, iter, result,
                   response, pending, l_calls, l_docs>>

\* variant: while start_page < number_of_pages, with no bound on the rounds
LoopRunsWhile == start_page < number_of_pages

\* for _ in range(number_of_pages): if start_page >= number_of_pages: break
LoopRuns == iter < number_of_pages /\ start_page < number_of_pages

\* split == "none", PDF: one chunk is requested and added to result
NoneChunk ==
    /\ UNCHANGED <<avars, pvars, rvars, ovars>>
    /\ Running
    /\ l_pc = "loop" /\ split = "none" /\ LoopRuns
    /\ LET req == SplitAndRequest(number_of_pages, start_page, page_batch_size)
       IN \E r \in Answers(req, Responses(req, split,
                                 MaxElems - ElementCount(l_calls))) :
            /\ l_calls' = Append(l_calls,
                  req @@ [ok |-> TRUE, resp |-> r, yielded |-> Len(l_docs)]
                  @@ GetResponseEffect(""))
            /\ response' = <<r>>
            /\ result' = Accumulate(result, parse_output(r, output_type))
    /\ start_page' = start_page + page_batch_size
    /\ iter' = iter + 1
    /\ UNCHANGED <<linputs, pulls, page_batch_size, l_pc, pending, l_docs, l_err>>

\* split == "element", PDF: one chunk is requested
ElementChunk ==
    /\ UNCHANGED <<avars, pvars, rvars, ovars>>
    /\ Running
    /\ l_pc = "loop" /\ split = "element" /\ LoopRuns
    /\ LET req == SplitAndRequest(number_of_pages, start_page, page_batch_size)
       IN \E r \in Answers(req, Responses(req, split,
                                 MaxElems - ElementCount(l_calls))) :
            /\ l_calls' = Append(l_calls,
                  req @@ [ok |-> TRUE, resp |-> r, yielded |-> Len(l_docs)]
                  @@ GetResponseEffect(""))
            /\ response' = <<r>>
            /\ pending' = ElementDocs(r.elements, output_type, split)
    /\ l_pc' = "yield"
    /\ UNCHANGED <<linputs, pulls, page_batch_size, start_page, iter, result, l_docs,
                   l_err>>

\* split == "page", PDF: one chunk is requested
PageChunk ==
    /\ UNCHANGED <<avars, pvars, rvars, ovars>>
    /\ Running
    /\ l_pc = "loop" /\ split = "page" /\ LoopRuns
    /\ LET req == SplitAndRequest(number_of_pages, start_page, page_batch_size)
       IN \E r \in Answers(req, Responses(req, split,
                                 MaxElems - ElementCount(l_calls))) :
            /\ l_calls' = Append(l_calls,
                  req @@ [ok |-> TRUE, resp |-> r, yielded |-> Len(l_docs)]
                  @@ GetResponseEffect(""))
            /\ response' = <<r>>
            /\ pending' = _page_document(r.elements, output_type, split)
    /\ l_pc' = "yield"
    /\ UNCHANGED <<linputs, pulls, page_batch_size, start_page, iter, result, l_docs,
                   l_err>>

\* variant: the failed request is swallowed and the loop goes on to the next
\* chunk
ChunkFailsSkipped ==
    /\ UNCHANGED <<avars, pvars, rvars, ovars>>
    /\ Running
    /\ l_pc = "loop" /\ LoopRuns
    /\ \E f \in FailuresOf(SplitAndRequest(number_of_pages, start_page,
                                            page_batch_size), Failures) :
         l_calls' = Append(l_calls,
               SplitAndRequest(number_of_pages, start_page, page_batch_size)
               @@ [ok |-> FALSE, resp |-> NoResponse, yielded |-> Len(l_docs)]
               @@ GetResponseEffect(f))
    /\ start_page' = start_page + page_batch_size
    /\ iter' = iter + 1
    /\ UNCHANGED <<linputs, pulls, page_batch_size, l_pc, result, response, pending,
                   l_docs, l_err>>

\* a chunk's request fails: _get_response raises out of the generator
ChunkFails ==
    /\ UNCHANGED <<avars, pvars, rvars, ovars>>
    /\ Running
    /\ l_pc = "loop" /\ LoopRuns
    /\ \E f \in FailuresOf(SplitAndRequest(number_of_pages, start_page,
                                            page_batch_size), Failures) :
         /\ l_calls' = Append(l_calls,
               SplitAndRequest(number_of_pages, start_page, page_batch_size)
               @@ [ok |-> FALSE, resp |-> NoResponse, yielded |-> Len(l_docs)]
               @@ GetResponseEffect(f))
         /\ l_err' \in RaisedBy(SplitAndRequest(number_of_pages, start_page,
                                            page_batch_size),
                            GetResponseRaises(impl, f))
    /\ l_pc' = "raised"
    /\ UNCHANGED <<linputs, pulls, page_batch_size, start_page, iter, result,
                   response, pending, l_docs>>

\* yield / yield from: the caller receives the next Document of the chunk
YieldDoc ==
    /\ UNCHANGED <<avars, pvars, rvars, ovars>>
    /\ Running
    /\ l_pc = "yield"
    /\ pending # <<>>
    /\ l_docs' = Append(l_docs, Head(pending))
    /\ pending' = Tail(pending)
    /\ UNCHANGED <<linputs, pulls, page_batch_size, l_pc, start_page, iter, result,
                   response, l_calls, l_err>>

\* start_page += page_batch_size, after the chunk's Documents
Advance ==
    /\ UNCHANGED <<avars, pvars, rvars, ovars>>
    /\ Running
    /\ l_pc = "yield"
    /\ pending = <<>>
    /\ is_pdf
    /\ start_page' = start_page + page_batch_size
    /\ iter' = iter + 1
    /\ l_pc' = "loop"
    /\ UNCHANGED <<linputs, pulls, page_batch_size, result, response, pending,
                   l_calls, l_docs, l_err>>

\* element and page: the loop is over, the generator returns
LoopEnd ==
    /\ UNCHANGED <<avars, pvars, rvars, ovars>>
    /\ Running
    /\ l_pc = "loop" /\ split # "none" /\ ~LoopRuns
    /\ l_pc' = "done"
    /\ UNCHANGED <<linputs, pulls, page_batch_size, start_page, iter, result,
                   response, pending, l_calls, l_docs, l_err>>

NoneDocument ==
    [page_content |-> result,
     total_pages |-> TotalPages(impl, number_of_pages, response),
     type |-> output_type, split |-> split]

\* split == "none": the loop is over, the one Document is yielded
NoneYield ==
    /\ UNCHANGED <<avars, pvars, rvars, ovars>>
    /\ Running
    /\ l_pc = "loop" /\ split = "none" /\ ~LoopRuns
    /\ impl = "parsers" => response # <<>>
    /\ l_docs' = Append(l_docs, NoneDocument)
    /\ l_pc' = "done"
    /\ UNCHANGED <<linputs, pulls, page_batch_size, start_page, iter, result,
                   response, pending, l_calls, l_err>>

\* parsers.py, split == "none", no chunk was requested: response["billed_pages"]
\* reads a local variable that was never bound
NoneYieldUnbound ==
    /\ UNCHANGED <<avars, pvars, rvars, ovars>>
    /\ Running
    /\ l_pc = "loop" /\ split = "none" /\ ~LoopRuns
    /\ impl = "parsers" /\ response = <<>>
    /\ l_err' = "UnboundLocalError"
    /\ l_pc' = "raised"
    /\ UNCHANGED <<linputs, pulls, page_batch_size, start_page, iter, result,
                   response, pending, l_calls, l_docs>>

\* not a PDF, split == "none": the whole file is requested, the Document yielded
SingleNone ==
    /\ UNCHANGED <<avars, pvars, rvars, ovars>>
    /\ Running
    /\ l_pc = "single" /\ split = "none"
    /\ \E r \in Answers(WholeFile(number_of_pages),
                      Responses(WholeFile(number_of_pages), split, MaxElems)) :
         /\ l_calls' = Append(l_calls, WholeFile(number_of_pages)
               @@ [ok |-> TRUE, resp |-> r, yielded |-> Len(l_docs)]
                  @@ GetResponseEffect(""))
         /\ response' = <<r>>
         /\ result' = parse_output(r, output_type)
         /\ l_docs' = Append(l_docs,
               [page_content |-> parse_output(r, output_type),
                total_pages |-> TotalPages(impl, number_of_pages, <<r>>),
                type |-> output_type, split |-> split])
    /\ l_pc' = "done"
    /\ UNCHANGED <<linputs, pulls, page_batch_size, start_page, iter, pending, l_err>>

\* not a PDF, split == "element" or "page": the whole file is requested
SingleElements ==
    /\ UNCHANGED <<avars, pvars, rvars, ovars>>
    /\ Running
    /\ l_pc = "single" /\ split # "none"
    /\ \E r \in Answers(WholeFile(number_of_pages),
                      Responses(WholeFile(number_of_pages), split, MaxElems)) :
         /\ l_calls' = Append(l_calls, WholeFile(number_of_pages)
               @@ [ok |-> TRUE, resp |-> r, yielded |-> Len(l_docs)]
                  @@ GetResponseEffect(""))
         /\ response' = <<r>>
         /\ pending' = IF split = "element"
                       THEN ElementDocs(r.elements, output_type, split)
                       ELSE _page_document(r.elements, output_type, split)
    /\ l_pc' = "yield"
    /\ UNCHANGED <<linputs, pulls, page_batch_size, start_page, iter, result, l_docs,
                   l_err>>

\* not a PDF: the request fails
SingleFails ==
    /\ UNCHANGED <<avars, pvars, rvars, ovars>>
    /\ Running
    /\ l_pc = "single"
    /\ \E f \in FailuresOf(WholeFile(number_of_pages), Failures) :
         /\ l_calls' = Append(l_calls, WholeFile(number_of_pages)
               @@ [ok |-> FALSE, resp |-> NoResponse, yielded |-> Len(l_docs)]
               @@ GetResponseEffect(f))
         /\ l_err' \in RaisedBy(WholeFile(number_of_pages),
                            GetResponseRaises(impl, f))
    /\ l_pc' = "raised"
    /\ UNCHANGED <<linputs, pulls, page_batch_size, start_page, iter, result,
                   response, pending, l_docs>>

\* not a PDF: the Documents of the one response are out, the generator returns
SingleEnd ==
    /\ UNCHANGED <<avars, pvars, rvars, ovars>>
    /\ Running
    /\ l_pc = "yield"
    /\ pending = <<>>
    /\ ~is_pdf
    /\ l_pc' = "done"
    /\ UNCHANGED <<linputs, pulls, page_batch_size, start_page, iter, result,
                   response, pending, l_calls, l_docs, l_err>>

NextLayout ==
    \/ Pull
    \/ LStart
    \/ InvalidSplit
    \/ NoneChunk
    \/ ElementChunk
    \/ PageChunk
    \/ ChunkFails
    \/ YieldDoc
    \/ Advance
    \/ LoopEnd
    \/ NoneYield
    \/ NoneYieldUnbound
    \/ SingleNone
    \/ SingleElements
    \/ SingleFails
    \/ SingleEnd

(***************************************************************************)
(* _page_document applied to an arbitrary list of elements                 *)
(***************************************************************************)
PdPages == {1, 2, 3}
PdTexts == {"a", "b"}

PdElementLists ==
    UNION { [1..n -> [page : PdPages, text : PdTexts]] : n \in 0..MaxPdElems }

InitPageDocVars ==
    /\ pd_pc = "call"
    /\ pd_type \in OutputTypes
    /\ \E es \in PdElementLists :
         pd_elements = [i \in 1..Len(es) |->
             [page |-> es[i].page, id |-> i - 1, text |-> es[i].text,
              html |-> "<" \o es[i].text \o ">"]]
    /\ pd_docs = <<>>

IdlePageDocVars ==
    /\ pd_pc = "off"
    /\ pd_type = "text"
    /\ pd_elements = <<>>
    /\ pd_docs = <<>>

PageDocumentCall ==
    /\ UNCHANGED <<avars, lvars, rvars, ovars>>
    /\ pd_pc = "call"
    /\ pd_docs' = _page_document(pd_elements, pd_type, "page")
    /\ pd_pc' = "returned"
    /\ UNCHANGED <<pd_type, pd_elements>>

NextPageDoc ==
    \/ PageDocumentCall

(***************************************************************************)
(* What the caller of a layout run holds.                                  *)
(***************************************************************************)
\* variant: load hands over the Documents gathered so far when the
\* generator raises
ReceivedEach == l_docs

\* load returns list(parser.lazy_parse(...)): the list exists only once the
\* generator is exhausted.  lazy_load (yield from) and lazy_parse hand each
\* Document over when it is yielded.
Received ==
    IF entry = "load"
    THEN (IF l_pc = "done" THEN l_docs ELSE <<>>)
    ELSE l_docs

(***************************************************************************)
(* Construction of LayoutAnalysis / LayoutAnalysisParser, then the run.    *)
(***************************************************************************)
ApiKeyArgs == {NoneArg, "", "sk-arg"}
EnvValues == {Unset, "", "sk-env"}
ConstructPageCounts == {0, 2}

\* get_from_param_or_env finds a value: param is not None, or the variable
\* is in os.environ and non-empty (no default is passed)
KeyFound(param, env) == param # NoneArg \/ env \notin {Unset, ""}

\* the value get_from_param_or_env returns when it finds one
get_from_param_or_env(param, env) == IF param # NoneArg THEN param ELSE env

\* variant: only None is rejected
validate_api_key_not_none(key) == key # NoneArg

\* validate_api_key passes: not (not api_key)
validate_api_key(key) == key # ""

\* validate_file_path passes: os.path.exists(file_path)
validate_file_path(exists) == exists

\* the exception __init__ raises, "" if it returns.  LayoutAnalysis (load,
\* lazy_load) resolves the key, validates the path, then the key;
\* LayoutAnalysisParser (lazy_parse) has no path to validate.
ConstructorRaises(e, param, env, exists) ==
    IF ~KeyFound(param, env) THEN "ValueError"
    ELSE IF e \in {"load", "lazy_load"} /\ ~validate_file_path(exists)
         THEN "FileNotFoundError"
    ELSE IF ~validate_api_key(get_from_param_or_env(param, env))
         THEN "ValueError"
    ELSE ""

InitConstructVars ==
    /\ impl \in Impls
    /\ split \in SplitArgs
    /\ output_type \in OutputTypes
    /\ is_pdf \in BOOLEAN
    /\ number_of_pages \in (IF is_pdf THEN ConstructPageCounts ELSE {1})
    /\ page_batch_size \in BatchSizes
    /\ batch_arg = page_batch_size
    /\ entry \in Entries
    /\ EntryFits(entry, impl, page_batch_size)
    /\ api_key \in ApiKeyArgs
    /\ env_key \in EnvValues
    /\ file_exists \in BOOLEAN
    /\ self_api_key = Unset
    /\ l_pc = "new"
    /\ start_page = 0
    /\ iter = 0
    /\ result = ""
    /\ response = <<>>
    /\ pending = <<>>
    /\ l_calls = <<>>
    /\ l_docs = <<>>
    /\ l_err = ""
    /\ pulls = 0

\* __init__ returns: the object exists and a run can be started on it
Construct ==
    /\ UNCHANGED <<avars, pvars, rvars, ovars>>
    /\ l_pc = "new"
    /\ ConstructorRaises(entry, api_key, env_key, file_exists) = ""
    /\ self_api_key' = get_from_param_or_env(api_key, env_key)
    /\ l_pc' = "start"
    /\ UNCHANGED <<impl, split, output_type, is_pdf, number_of_pages, entry,
                   api_key, env_key, file_exists, page_batch_size, start_page,
                   iter, result, response, pending, l_calls, l_docs, l_err,
                   pulls, batch_arg>>

\* __init__ raises: there is no object to run
ConstructRaises ==
    /\ UNCHANGED <<avars, pvars, rvars, ovars>>
    /\ l_pc = "new"
    /\ ConstructorRaises(entry, api_key, env_key, file_exists) # ""
    /\ l_err' = ConstructorRaises(entry, api_key, env_key, file_exists)
    /\ l_pc' = "raised"
    /\ UNCHANGED <<linputs, pulls, page_batch_size, start_page, iter, result,
                   response, pending, l_calls, l_docs>>

\* the first pull of lazy_parse on a path that does not exist: fitz.open raises
FitzOpenFails ==
    /\ UNCHANGED <<avars, pvars, rvars, ovars>>
    /\ Running
    /\ l_pc = "start"
    /\ ~file_exists
    /\ l_err' = "FileNotFoundError"
    /\ l_pc' = "raised"
    /\ UNCHANGED <<linputs, pulls, page_batch_size, start_page, iter, result,
                   response, pending, l_calls, l_docs>>

NextConstruct ==
    \/ Construct
    \/ ConstructRaises
    \/ FitzOpenFails
    \/ NextLayout

InitConstruct ==
    IdleAudioVars /\ InitConstructVars /\ IdlePageDocVars /\ FirstRun
    /\ IdleLocalVars /\ IdleYandexVars

SpecConstruct == InitConstruct /\ [][NextConstruct]_vars

(***************************************************************************)
(* The same input run a second time (a fresh generator on the same object).*)
(***************************************************************************)
AudioRunAgain ==
    /\ UNCHANGED <<lvars, pvars, ovars>>
    /\ a_pc = "done"
    /\ ~prev.ran
    /\ prev' = [ran |-> TRUE, calls |-> a_calls, docs |-> a_docs, err |-> ""]
    /\ a_pc' = "loop"
    /\ split_number' = 0
    /\ attempts' = 0
    /\ file_obj' = NoFile
    /\ a_chunks' = <<>>
    /\ a_calls' = <<>>
    /\ a_docs' = <<>>
    /\ slept' = 0
    /\ UNCHANGED <<audio_len, threshold, source>>

\* variant: the accumulator of none mode outlives the run
LayoutRunAgainKeepsResult ==
    /\ UNCHANGED <<avars, pvars, ovars>>
    /\ l_pc \in {"done", "raised"}
    /\ ~prev.ran
    /\ prev' = [ran |-> TRUE, calls |-> l_calls, docs |-> l_docs,
                err |-> l_err]
    /\ l_pc' = "start"
    /\ start_page' = 0
    /\ iter' = 0
    /\ response' = <<>>
    /\ pending' = <<>>
    /\ l_calls' = <<>>
    /\ l_docs' = <<>>
    /\ l_err' = ""
    /\ pulls' = 0
    /\ UNCHANGED <<linputs, page_batch_size, result>>

\* lazy_parse is called again: its locals start afresh.  In none mode the
\* batch size argument is overwritten again at the first pull, in the other
\* modes the local still holds the argument.
LayoutRunAgain ==
    /\ UNCHANGED <<avars, pvars, ovars>>
    /\ l_pc \in {"done", "raised"}
    /\ ~prev.ran
    /\ prev' = [ran |-> TRUE, calls |-> l_calls, docs |-> l_docs,
                err |-> l_err]
    /\ l_pc' = "start"
    /\ start_page' = 0
    /\ iter' = 0
    /\ result' = ""
    /\ response' = <<>>
    /\ pending' = <<>>
    /\ l_calls' = <<>>
    /\ l_docs' = <<>>
    /\ l_err' = ""
    /\ pulls' = 0
    /\ UNCHANGED <<linputs, page_batch_size>>

\* LayoutAnalysis.load() has returned or raised; lazy_load() of the same loader
\* is iterated next: a new parser with the same split and output type, and
\* lazy_parse(blob) with split_pages left at its default of 1
LazyLoadAfterLoad ==
    /\ UNCHANGED <<avars, pvars, ovars>>
    /\ entry = "load"
    /\ l_pc \in {"done", "raised"}
    /\ ~prev.ran
    /\ prev' = [ran |-> TRUE, calls |-> l_calls, docs |-> Received,
                err |-> l_err]
    /\ entry' = "lazy_load"
    /\ page_batch_size' = 1
    /\ batch_arg' = 1
    /\ l_pc' = "start"
    /\ start_page' = 0
    /\ iter' = 0
    /\ result' = ""
    /\ response' = <<>>
    /\ pending' = <<>>
    /\ l_calls' = <<>>
    /\ l_docs' = <<>>
    /\ l_err' = ""
    /\ pulls' = 0
    /\ UNCHANGED <<impl, split, output_type, is_pdf, number_of_pages, api_key,
                   env_key, file_exists, self_api_key>>

(***************************************************************************)
(* Specifications                                                          *)
(***************************************************************************)


InitAudio == InitAudioVars /\ IdleLayoutVars /\ IdlePageDocVars /\ FirstRun
    /\ IdleLocalVars /\ IdleYandexVars
InitLayout == IdleAudioVars /\ InitLayoutVars /\ IdlePageDocVars /\ FirstRun
    /\ IdleLocalVars /\ IdleYandexVars
InitPageDoc == IdleAudioVars /\ IdleLayoutVars /\ InitPageDocVars /\ FirstRun
    /\ IdleLocalVars /\ IdleYandexVars

Init == InitAudio \/ InitLayout \/ InitPageDoc
Next == NextAudio \/ NextLayout \/ NextPageDoc

Spec == Init /\ [][Next]_vars
SpecAudio == InitAudio /\ [][NextAudio]_vars
SpecLayout == InitLayout /\ [][NextLayout]_vars
SpecPageDoc == InitPageDoc /\ [][NextPageDoc]_vars

InitLocal ==
    /\ IdleAudioVars /\ IdleLayoutVars /\ IdlePageDocVars /\ FirstRun
    /\ InitLocalVars /\ IdleYandexVars
SpecLocal == InitLocal /\ [][NextLocal]_vars

InitYandex ==
    /\ IdleAudioVars /\ IdleLayoutVars /\ IdlePageDocVars /\ FirstRun
    /\ IdleLocalVars /\ InitYandexVars
SpecYandex == InitYandex /\ [][NextYandex]_vars

\* the runs that are repeated: one threshold, one source name and three
\* kinds of last chunk (none, filtered, kept) for audio, text output through
\* lazy_parse for layout
InitTwice ==
    \/ /\ InitAudio
       /\ threshold = 100 /\ source = "talk.m4a"
       /\ audio_len % chunk_duration_ms \in {0, 100, 300000}
    \/ /\ InitLayout
       /\ output_type = "text" /\ entry = "lazy_parse"
       /\ batch_arg \in {0, 2}
NextTwice ==
    \/ NextAudio
    \/ NextLayout
    \/ AudioRunAgain
    \/ LayoutRunAgain
SpecTwice == InitTwice /\ [][NextTwice]_vars

\* load() and then lazy_load() of one loader
InitEntries ==
    /\ InitLayout
    /\ entry = "load"
    /\ PlannedCalls(number_of_pages, EffectiveBatch(impl, split, 1)) <= MaxChunks
NextEntries ==
    \/ NextLayout
    \/ LazyLoadAfterLoad
SpecEntries == InitEntries /\ [][NextEntries]_vars

\* element and page mode on a PDF, iterated to the end: the generator's code
\* runs on whenever the caller asks for the next record, and the caller of a
\* full iteration keeps asking
InitBatches ==
    /\ InitLayout
    /\ split \in {"element", "page"}
    /\ is_pdf
    /\ entry = "lazy_parse"
    /\ output_type = "text"
NextBatches ==
    \/ Pull
    \/ LStart
    \/ ElementChunk
    \/ PageChunk
    \/ ChunkFails
    \/ YieldDoc
    \/ Advance
    \/ LoopEnd
SpecBatches == InitBatches /\ [][NextBatches]_vars /\ WF_vars(NextBatches)

(***************************************************************************)
(* Properties                                                              *)
(***************************************************************************)
CallsFor(k) == SelectSeq(a_calls, LAMBDA c : c.chunk = k)
DocsFor(k) == SelectSeq(a_docs, LAMBDA d : d.chunk = k)
AllFailed(cs) == \A j \in 1..Len(cs) : ~cs[j].ok
CeilDiv(n, c) == (n + c - 1) \div c

\* C1: every kept chunk is attempted at most 3 times; only the last attempt
\* of a chunk can be a success; a chunk whose attempt k is the first to
\* succeed has exactly one record, emitted after exactly k attempts, and a
\* chunk has a record only then.
C1_RetryThenRecord ==
    \A i \in 1..Len(a_chunks) :
        a_chunks[i].kept =>
            LET cs == CallsFor(a_chunks[i].index)
                ds == DocsFor(a_chunks[i].index)
            IN  /\ Len(cs) <= 3
                /\ \A j \in 1..(Len(cs) - 1) : ~cs[j].ok
                /\ Len(ds) <= 1
                /\ (Len(cs) > 0 /\ cs[Len(cs)].ok) <=> (Len(ds) = 1)

\* fail, fail, succeed on one chunk has produced its record
C1_Witness ==
    \E i \in 1..Len(a_chunks) :
        LET cs == CallsFor(a_chunks[i].index)
        IN  /\ Len(cs) = 3
            /\ ~cs[1].ok /\ ~cs[2].ok /\ cs[3].ok
            /\ Len(DocsFor(a_chunks[i].index)) = 1

\* C2: a chunk whose 3 attempts all failed has no record; no exception
\* leaves lazy_parse; the run goes on and, once it has ended, it has visited
\* every chunk of the input and yielded, in order, the record of exactly
\* every kept chunk that had a successful attempt.
C2_ExhaustedChunkSkipped ==
    /\ a_pc # "raised"
    /\ \A i \in 1..Len(a_chunks) :
          LET cs == CallsFor(a_chunks[i].index)
          IN  (Len(cs) = 3 /\ AllFailed(cs)) => DocsFor(a_chunks[i].index) = <<>>
    /\ a_pc \in {"loop", "attempt"} => ENABLED NextAudio
    /\ a_pc = "done" =>
          /\ Len(a_chunks) = CeilDiv(audio_len, chunk_duration_ms)
          /\ \A i \in 1..Len(a_chunks) :
                (a_chunks[i].kept /\ ~AllFailed(CallsFor(a_chunks[i].index)))
                    <=> Len(DocsFor(a_chunks[i].index)) = 1
          /\ \A i, j \in 1..Len(a_docs) : i < j => a_docs[i].chunk < a_docs[j].chunk

\* a finished run in which an exhausted chunk is followed by a transcribed one
C2_Witness ==
    /\ a_pc = "done"
    /\ \E i, j \in 1..Len(a_chunks) :
          /\ i < j
          /\ Len(CallsFor(a_chunks[i].index)) = 3
          /\ AllFailed(CallsFor(a_chunks[i].index))
          /\ Len(DocsFor(a_chunks[j].index)) = 1

\* C3: with extent N and chunk size c > 0 the chunks start at 0, c, 2c, ...,
\* one for every multiple below N, and the range sent for the chunk at s is
\* [s, s + min(c, N - s)); 25 pages with batch size 10 are 3 calls, for
\* pages 0-9, 10-19 and 20-24.
C3_ChunkRanges ==
    /\ \A i \in 1..Len(a_chunks) :
          /\ a_chunks[i].index = i - 1
          /\ a_chunks[i].start = (i - 1) * 1200000
          /\ a_chunks[i].start < audio_len
          /\ a_chunks[i].length = Min(1200000, audio_len - a_chunks[i].start)
    /\ \A i \in 1..Len(a_calls) :
          /\ a_calls[i].start = a_calls[i].chunk * 1200000
          /\ a_calls[i].length = Min(1200000, audio_len - a_calls[i].start)
    /\ a_pc = "done" => Len(a_chunks) = CeilDiv(audio_len, 1200000)
    /\ (is_pdf /\ l_pc \notin {"off", "start"} /\ page_batch_size > 0) =>
          /\ \A i \in 1..Len(l_calls) :
                /\ l_calls[i].start = (i - 1) * page_batch_size
                /\ l_calls[i].start < number_of_pages
                /\ l_calls[i].length =
                      Min(page_batch_size, number_of_pages - l_calls[i].start)
          /\ l_pc = "done" =>
                Len(l_calls) = CeilDiv(number_of_pages, page_batch_size)
          /\ (l_pc = "done" /\ number_of_pages = 25 /\ page_batch_size = 10) =>
                [i \in 1..Len(l_calls) |-> <<l_calls[i].start, l_calls[i].length>>]
                    = << <<0, 10>>, <<10, 10>>, <<20, 5>> >>

\* 25 pages in page mode, batch size 10: the run has ended after 3 calls
C3_Witness ==
    /\ l_pc = "done" /\ is_pdf /\ split = "page"
    /\ number_of_pages = 25 /\ page_batch_size = 10
    /\ Len(l_calls) = 3

Disjoint(s1, n1, s2, n2) == s1 + n1 <= s2 \/ s2 + n2 <= s1

RECURSIVE TotalLength(_)
TotalLength(rs) ==
    IF rs = <<>> THEN 0 ELSE Head(rs).length + TotalLength(Tail(rs))

\* the ranges rs are pairwise disjoint and lie within [0, n)
DisjointWithin(rs, n) ==
    /\ \A i \in 1..Len(rs) :
          rs[i].start >= 0 /\ rs[i].length >= 0
          /\ rs[i].start + rs[i].length <= n
    /\ \A i, j \in 1..Len(rs) :
          i # j => Disjoint(rs[i].start, rs[i].length, rs[j].start, rs[j].length)

\* C4: for a chunk size c > 0, the ranges of the chunks processed and of the
\* chunks dropped by the minimum-size filter are pairwise disjoint and never
\* leave [0, N); when the run has ended their union is exactly [0, N).
C4_RangesPartitionExtent ==
    /\ DisjointWithin(a_chunks, audio_len)
    /\ a_pc = "done" => TotalLength(a_chunks) = audio_len
    /\ (is_pdf /\ l_pc \notin {"off", "start"} /\ page_batch_size > 0) =>
          /\ DisjointWithin(l_calls, number_of_pages)
          /\ l_pc = "done" => TotalLength(l_calls) = number_of_pages

\* a finished audio run with a processed chunk and a dropped tail
C4_Witness ==
    /\ a_pc = "done"
    /\ \E i, j \in 1..Len(a_chunks) : a_chunks[i].kept /\ ~a_chunks[j].kept

\* C5: a chunk is sent for transcription iff its duration is strictly
\* greater than the threshold; a chunk of at most the threshold causes no
\* call and no record.
C5_SentIffAboveThreshold ==
    /\ \A i \in 1..Len(a_chunks) :
          /\ a_chunks[i].kept <=> a_chunks[i].length > threshold
          /\ a_chunks[i].length <= threshold =>
                /\ CallsFor(a_chunks[i].index) = <<>>
                /\ DocsFor(a_chunks[i].index) = <<>>
          /\ (a_chunks[i].length > threshold /\ split_number > a_chunks[i].index)
                => CallsFor(a_chunks[i].index) # <<>>
    /\ \A i \in 1..Len(a_calls) : a_calls[i].length > threshold

\* a chunk of exactly the threshold was dropped, a longer one was sent
C5_Witness ==
    /\ a_pc = "done"
    /\ \E i \in 1..Len(a_chunks) :
          a_chunks[i].length = threshold /\ CallsFor(a_chunks[i].index) = <<>>
    /\ \E i \in 1..Len(a_chunks) : CallsFor(a_chunks[i].index) # <<>>

OutputOf(data) == IF output_type = "text" THEN data.text ELSE data.html

RECURSIVE ConcatOf(_)
\* the contents of the responses of calls, one after the other
ConcatOf(calls) ==
    IF calls = <<>> THEN ""
    ELSE OutputOf(Head(calls).resp) \o ConcatOf(Tail(calls))

\* C6: split "none" on a PDF yields at most one record, and none before the
\* call of the last chunk has returned; its content is the concatenation of
\* the chunks' text/html in ascending chunk order; a run that ends has
\* yielded exactly one.
C6_NoneOneRecordConcatenated ==
    (split = "none" /\ is_pdf) =>
        /\ Len(l_docs) <= 1
        /\ \A i \in 1..Len(l_calls) : l_calls[i].yielded = 0
        /\ \A i, j \in 1..Len(l_calls) :
              i < j => l_calls[i].start < l_calls[j].start
        /\ l_docs # <<>> =>
              /\ Len(l_calls) = CeilDiv(number_of_pages, 10)
              /\ \A i \in 1..Len(l_calls) : l_calls[i].ok
              /\ l_docs[1].page_content = ConcatOf(l_calls)
              /\ l_docs[1].split = "none"
        /\ l_pc = "done" => Len(l_docs) = 1

\* a PDF of three chunks has been turned into its one record
C6_Witness ==
    /\ split = "none" /\ is_pdf /\ l_pc = "done"
    /\ Len(l_calls) = 3 /\ Len(l_docs) = 1

\* C7: with split "none" the record's total_pages is the page count of the
\* input document, whatever the backend answers.
C7_TotalPagesIsPageCount ==
    split = "none" =>
        \A i \in 1..Len(l_docs) : l_docs[i].total_pages = number_of_pages

PdOutputOf(data) == IF pd_type = "text" THEN data.text ELSE data.html

RECURSIVE SpaceJoined(_)
SpaceJoined(strs) ==
    IF Len(strs) = 0 THEN ""
    ELSE IF Len(strs) = 1 THEN strs[1]
    ELSE SpaceJoined(SubSeq(strs, 1, Len(strs) - 1)) \o " " \o strs[Len(strs)]

\* the texts of the elements of pd_elements on page p, in their order
PdTextsOn(p) ==
    LET on == SelectSeq(pd_elements, LAMBDA e : e.page = p)
    IN  [i \in 1..Len(on) |-> PdOutputOf(on[i])]

\* C8: _page_document returns one record per distinct page number, in
\* ascending page order; a record's content is the texts of exactly the
\* elements of its page, in their original order, joined by one space; the
\* pages of the output are the pages of the input.
C8_PageDocumentGroups ==
    pd_pc = "returned" =>
        /\ \A i, j \in 1..Len(pd_docs) :
              i < j => pd_docs[i].page < pd_docs[j].page
        /\ {pd_docs[i].page : i \in 1..Len(pd_docs)}
              = {pd_elements[i].page : i \in 1..Len(pd_elements)}
        /\ \A i \in 1..Len(pd_docs) :
              pd_docs[i].page_content = SpaceJoined(PdTextsOn(pd_docs[i].page))

\* elements of two pages, out of page order, one page with two elements
C8_Witness ==
    /\ pd_pc = "returned"
    /\ Len(pd_docs) = 2
    /\ Len(pd_elements) = 3
    /\ pd_elements[1].page > pd_elements[2].page
    /\ pd_elements[3].page = pd_elements[1].page
    /\ pd_elements[1].text # pd_elements[3].text

ResponsePages ==
    UNION { {l_calls[i].resp.elements[j].page
               : j \in 1..Len(l_calls[i].resp.elements)}
            : i \in 1..Len(l_calls) }

\* C9: split "page" on a PDF: over a whole run there are as many records as
\* distinct page numbers in the responses of all chunks, and no two records
\* carry the same page number.
C9_OneRecordPerDistinctPage ==
    (split = "page" /\ is_pdf /\ l_pc = "done") =>
        /\ Len(l_docs) = Cardinality(ResponsePages)
        /\ \A i, j \in 1..Len(l_docs) : i # j => l_docs[i].page # l_docs[j].page

RECURSIVE ElementRecords(_)
\* one record per element of every response of calls, in order
ElementRecords(calls) ==
    IF calls = <<>> THEN <<>>
    ELSE [i \in 1..Len(Head(calls).resp.elements) |->
            [page_content |-> OutputOf(Head(calls).resp.elements[i]),
             page |-> Head(calls).resp.elements[i].page,
             id |-> Head(calls).resp.elements[i].id,
             type |-> output_type,
             split |-> "element"]]
         \o ElementRecords(Tail(calls))

\* C10: split "element": the records yielded are, in order, one per element
\* of chunk 0's response in backend order, then chunk 1's, and so on, each
\* with the element's page and id and the split mode; when the call for a
\* chunk is made, every record of the chunks before it has been yielded.
C10_ElementRecordsInOrder ==
    split = "element" =>
        /\ Len(l_docs) <= Len(ElementRecords(l_calls))
        /\ l_docs = SubSeq(ElementRecords(l_calls), 1, Len(l_docs))
        /\ \A i \in 1..Len(l_calls) :
              l_calls[i].yielded = Len(ElementRecords(SubSeq(l_calls, 1, i - 1)))
        /\ l_pc = "done" => l_docs = ElementRecords(l_calls)

\* two chunks, the first with two elements, all yielded
C10_Witness ==
    /\ split = "element" /\ is_pdf /\ l_pc = "done"
    /\ Len(l_calls) >= 2
    /\ Len(l_calls[1].resp.elements) = 2
    /\ Len(l_calls[2].resp.elements) >= 1
    /\ Len(l_docs) >= 3

\* ---- the layout call's failures ----

\* the calls of the layout run that failed in the given way
FailedWith(kind) ==
    {i \in 1..Len(l_calls) : ~l_calls[i].ok /\ l_calls[i].failure = kind}

C12_DecodeFailureRaisesValueError ==
    \A i \in FailedWith("decode_error") :
        /\ i = Len(l_calls)
        /\ l_pc = "raised"
        /\ l_err = "ValueError"

\* ---- the payload handle ----

\* C13: every call of the layout request, returned or raised, has left its
\* payload handle closed; no handle of an earlier call was open when a chunk's
\* handle was created, so at most one handle is open at any time.
C13_HandleClosedAfterEveryCall ==
    \A i \in 1..Len(l_calls) :
        /\ l_calls[i].closed
        /\ l_calls[i].open_before = 0

\* a run with a returned call followed by a raised call
C13_Witness ==
    /\ Len(l_calls) >= 2
    /\ l_calls[1].ok
    /\ ~l_calls[Len(l_calls)].ok
    /\ l_pc = "raised"

\* ---- configuration errors ----

\* C14: with a split value that is none of "none", "element", "page" the run
\* never makes a remote call and never yields a record: from its first pull it
\* goes straight to the raised ValueError.
C14_InvalidSplitFailsBeforeAnyChunk ==
    split \notin {"none", "element", "page"} =>
        /\ l_calls = <<>>
        /\ l_docs = <<>>
        /\ pending = <<>>
        /\ l_pc \in {"start", "raised"}
        /\ l_pc = "raised" => l_err = "ValueError"

\* a run on a PDF with pages whose split value is invalid has raised
C14_Witness ==
    /\ split = "paragraph"
    /\ is_pdf /\ number_of_pages > 0
    /\ l_pc = "raised"

\* C15: with no api_key argument and no non-empty environment variable, or
\* with an empty api_key argument, construction raises; with a path that does
\* not exist construction of LayoutAnalysis raises (the parser is given its
\* path only at lazy_parse, whose first pull then raises).  In each case no
\* remote call is made and no record is produced.
C15_BadConfigurationNeverRuns ==
    LET missing == api_key = "<None>" /\ env_key \in {"<unset>", ""}
        empty == api_key = ""
        nofile == ~file_exists
    IN  (missing \/ empty \/ nofile) =>
            /\ l_calls = <<>>
            /\ l_docs = <<>>
            /\ l_pc \in {"new", "start", "raised"}
            /\ (missing \/ empty \/ entry \in {"load", "lazy_load"}) =>
                   l_pc \in {"new", "raised"}
            /\ l_pc = "raised" => l_err \in {"ValueError", "FileNotFoundError"}

\* an empty api_key argument made construction raise although the
\* environment holds a key
C15_Witness ==
    /\ api_key = ""
    /\ env_key = "sk-env"
    /\ file_exists
    /\ l_pc = "raised"
    /\ l_err = "ValueError"

\* ---- fatal errors and the records already produced ----

\* C16 as stated: when a chunk raises in element or page mode the caller has
\* received no record of the run, whichever way the run was started.
C16_FatalErrorReturnsNothing ==
    (l_pc = "raised" /\ split \in {"element", "page"}) => Received = <<>>

\* C16 amended: when a chunk raises in element or page mode, the caller of
\* load has received nothing; the caller iterating lazy_parse or lazy_load
\* has received exactly the records yielded before the failing call, and
\* nothing after it.
C16_FatalErrorByEntry ==
    (l_pc = "raised" /\ split \in {"element", "page"}) =>
        LET k == Len(l_calls)
        IN  /\ k >= 1 /\ ~l_calls[k].ok
            /\ entry = "load" => Received = <<>>
            /\ entry # "load" =>
                  Received = SubSeq(l_docs, 1, l_calls[k].yielded)
            /\ Len(l_docs) = l_calls[k].yielded

\* load: a later chunk raised after earlier chunks had produced records
C16_Witness ==
    /\ entry = "load"
    /\ split \in {"element", "page"}
    /\ l_pc = "raised"
    /\ l_docs # <<>>

\* ---- empty input ----

\* C17: an input of extent 0 (audio of length 0, a PDF of 0 pages) makes no
\* remote call and the run does not raise, in every split mode.
C17_EmptyInputCompletes ==
    /\ (a_pc # "off" /\ audio_len = 0) =>
           a_calls = <<>> /\ a_pc # "raised"
    /\ (l_pc # "off" /\ is_pdf /\ number_of_pages = 0
            /\ split \in {"none", "element", "page"}) =>
           l_calls = <<>> /\ l_pc # "raised"

\* ---- chunk numbering of the audio records ----

\* the successful transcription calls, in order
OkCalls == SelectSeq(a_calls, LAMBDA c : c.ok)

\* C18: every audio record carries the 0-based ordinal of its chunk, the
\* start of the range that was transcribed divided by the chunk size; when
\* all n planned chunks are kept and transcribed the records are numbered
\* 0..n-1 in order (45 minutes in 20-minute chunks: 0, 1, 2); a filtered or
\* skipped chunk leaves a gap and later records are not renumbered.
C18_ChunkOrdinal ==
    /\ Len(a_docs) = Len(OkCalls)
    /\ \A i \in 1..Len(a_docs) :
          /\ a_docs[i].chunk * 1200000 = OkCalls[i].start
          /\ a_docs[i].chunk >= i - 1
    /\ (a_pc = "done" /\ Len(a_docs) = CeilDiv(audio_len, 1200000)) =>
          \A i \in 1..Len(a_docs) : a_docs[i].chunk = i - 1
    /\ (a_pc = "done" /\ audio_len = 2700000 /\ Len(a_docs) = 3) =>
          <<a_docs[1].chunk, a_docs[2].chunk, a_docs[3].chunk>> = <<0, 1, 2>>
    /\ a_pc = "done" =>
          {a_docs[i].chunk : i \in 1..Len(a_docs)} =
              {a_chunks[i].index : i \in {j \in 1..Len(a_chunks) :
                    a_chunks[j].kept /\ ~AllFailed(CallsFor(a_chunks[j].index))}}

\* a finished run whose records are numbered 0 and 2: chunk 1 was skipped
C18_Witness ==
    /\ a_pc = "done"
    /\ Len(a_docs) = 2
    /\ a_docs[1].chunk = 0
    /\ a_docs[2].chunk = 2

\* ---- a non-PDF input in none mode ----

\* C19: a finished none-mode run on an input that is not a PDF has made exactly
\* one remote call, for the whole file, and yielded exactly one record, whose
\* total_pages is 1.
C19_NonPdfNoneOneCallOneRecord ==
    (l_pc = "done" /\ ~is_pdf /\ split = "none") =>
        /\ Len(l_calls) = 1
        /\ l_calls[1].ok
        /\ l_calls[1].start = 0 /\ l_calls[1].length = number_of_pages
        /\ Len(l_docs) = 1
        /\ l_docs[1].total_pages = 1

\* ---- running twice ----

\* C20: against a backend that answers a repeated request as it did before, a
\* second run on the same input and configuration makes the same remote
\* calls in the same order and yields the same records in the same order as
\* the first; while it is under way its calls and records are a prefix of
\* the first run's, and it can always take its next step.
C20_SecondRunRepeatsFirst ==
    prev.ran =>
        /\ a_pc # "off" =>
              /\ Len(a_calls) <= Len(prev.calls)
              /\ a_calls = SubSeq(prev.calls, 1, Len(a_calls))
              /\ Len(a_docs) <= Len(prev.docs)
              /\ a_docs = SubSeq(prev.docs, 1, Len(a_docs))
              /\ a_pc = "done" => a_calls = prev.calls /\ a_docs = prev.docs
        /\ l_pc # "off" =>
              /\ Len(l_calls) <= Len(prev.calls)
              /\ l_calls = SubSeq(prev.calls, 1, Len(l_calls))
              /\ Len(l_docs) <= Len(prev.docs)
              /\ l_docs = SubSeq(prev.docs, 1, Len(l_docs))
              /\ l_pc \in {"done", "raised"} =>
                    /\ l_calls = prev.calls
                    /\ l_docs = prev.docs
                    /\ l_err = prev.err
                    /\ (l_pc = "raised") = (prev.err # "")
        /\ (a_pc \in {"loop", "attempt"}
                \/ l_pc \in {"start", "loop", "single", "yield"}) =>
              ENABLED (NextAudio \/ NextLayout)

\* a second none-mode run of several chunks has finished
C20_Witness ==
    /\ prev.ran
    /\ l_pc = "done"
    /\ split = "none"
    /\ Len(l_calls) >= 2
    /\ l_docs # <<>>

\* ---- order of the records ----

\* C21: records come in ascending position order: the chunk metadata of the
\* audio records increases strictly from one record to the next, and in page
\* mode on a PDF the page metadata never decreases from one record to the
\* next.
C21_RecordsAscending ==
    /\ \A i \in 1..Len(a_docs) - 1 : a_docs[i].chunk < a_docs[i + 1].chunk
    /\ (split = "page" /\ is_pdf /\ l_pc # "off") =>
          \A i \in 1..Len(l_docs) - 1 : l_docs[i].page <= l_docs[i + 1].page

\* ---- pulling on demand ----

\* C22: no remote call is made before the caller asks for the first record;
\* every call is made while the caller waits for the record after those it
\* holds; in element and page mode, whenever the generator is suspended after
\* a record, the last call made is the one of that record's chunk (no call for
\* a later chunk has been made); in none mode every call is made in the first
\* pull.
C22_PulledOnDemand ==
    /\ pulls = 0 => l_calls = <<>> /\ l_docs = <<>>
    /\ \A i \in 1..Len(l_calls) : l_calls[i].pull = l_calls[i].yielded + 1
    /\ (split \in {"element", "page"} /\ l_pc \in {"loop", "single", "yield"}
            /\ pulls = Len(l_docs) /\ l_calls # <<>>) =>
          l_calls[Len(l_calls)].yielded < Len(l_docs)
    /\ split = "none" => \A i \in 1..Len(l_calls) : l_calls[i].pull = 1

\* element or page mode on a PDF of several chunks: the caller holds all the
\* records of the first chunk and has not asked for more
C22_Witness ==
    /\ split \in {"element", "page"}
    /\ is_pdf /\ number_of_pages > page_batch_size
    /\ Len(l_calls) = 1
    /\ l_docs # <<>> /\ pending = <<>>
    /\ pulls = Len(l_docs)

\* ---- local model invocations ----

\* C23: OpenAIWhisperParserLocal and FasterWhisperParser invoke the model at
\* most once per run and exactly once in a run that completes; a failed
\* invocation is neither retried nor skipped: it is the only invocation, the
\* run ends with the model's exception at the caller and has yielded nothing.
C23_LocalFailurePropagates ==
    /\ Len(w_calls) <= 1
    /\ w_pc = "done" => w_calls = <<"ok">>
    /\ (w_calls # <<>> /\ w_calls[Len(w_calls)] = "error") =>
          /\ w_pc = "raised"
          /\ w_err = "ModelError"
          /\ w_docs = <<>>

\* the model invocation of a run failed
C23_Witness ==
    /\ w_calls = <<"error">>
    /\ w_pc = "raised"

\* ---- the exception type of a failed layout call ----

\* C24: whatever makes the layout call fail (connection error, HTTP error
\* status, undecodable body), _get_response does not return and what it
\* raises is ValueError.
C24_FailedCallRaisesValueError ==
    \A i \in 1..Len(l_calls) :
        ~l_calls[i].ok =>
            /\ i = Len(l_calls)
            /\ l_pc = "raised"
            /\ l_err = "ValueError"

\* ---- YandexSTTParser's credentials ----

\* C25: YandexSTTParser is constructed exactly when one of api_key and
\* iam_token is given (not None): with both or neither the constructor raises
\* ValueError and nothing is configured; with exactly one, construction
\* succeeds and the credentials lazy_parse configures are the given one.
C25_ExactlyOneCredential ==
    LET both == y_api_key # "<None>" /\ y_iam_token # "<None>"
        neither == y_api_key = "<None>" /\ y_iam_token = "<None>"
    IN  /\ (both \/ neither) =>
              /\ y_pc \in {"off", "new", "raised"}
              /\ y_pc = "raised" => y_err = "ValueError"
              /\ y_creds = <<>>
        /\ (~both /\ ~neither /\ y_pc = "raised") => y_err # "ValueError"
        /\ (~both /\ ~neither /\ y_creds # <<>>) =>
              y_creds[1] =
                  (IF y_api_key # "<None>"
                   THEN [kind |-> "api_key", value |-> y_api_key]
                   ELSE [kind |-> "iam_token", value |-> y_iam_token])

\* ---- chunks are not revisited ----

\* C26: no chunk is revisited: the start offsets of the chunks materialized in
\* a run are strictly increasing (so each is materialized at most once), a
\* request for the same range as the one before is a retry of a failed call
\* (audio only, at most three per chunk), and a run that has ended has its
\* cursor at or past the total extent.
C26_NeverRevisitsChunk ==
    /\ \A i \in 1..Len(a_chunks) - 1 : a_chunks[i].start < a_chunks[i + 1].start
    /\ \A i \in 1..Len(a_calls) - 1 :
          \/ a_calls[i].start < a_calls[i + 1].start
          \/ a_calls[i].start = a_calls[i + 1].start /\ ~a_calls[i].ok
    /\ \A i \in 1..Len(a_calls) :
          Cardinality({j \in 1..Len(a_calls) :
                          a_calls[j].start = a_calls[i].start}) <= 3
    /\ a_pc = "done" => split_number * 1200000 >= audio_len
    /\ (is_pdf /\ l_pc \notin {"off", "start", "new"}) =>
          /\ \A i \in 1..Len(l_calls) - 1 : l_calls[i].start < l_calls[i + 1].start
          /\ l_pc = "done" => start_page >= number_of_pages

\* ---- the name of a part ----

\* the name the payload of the chunk with 0-based ordinal n is expected to have
ExpectedPartName(n) ==
    (IF source = "None" THEN "" ELSE source \o "_") \o "part_" \o ToString(n)
        \o ".mp3"

\* C27: the payload sent for the chunk with 0-based ordinal n (the chunk that
\* starts at n chunk lengths) is named "<source>_part_<n>.mp3" when the blob
\* has a source and "part_<n>.mp3" otherwise, on every attempt, and the n of
\* the name is the chunk metadata of the record emitted for that chunk.
C27_PartNameCarriesOrdinal ==
    /\ \A i \in 1..Len(a_calls) :
          /\ a_calls[i].start = a_calls[i].chunk * 1200000
          /\ a_calls[i].name = ExpectedPartName(a_calls[i].start \div 1200000)
    /\ a_pc = "attempt" => file_obj.name = ExpectedPartName(split_number)
    /\ Len(a_docs) = Len(OkCalls)
    /\ \A i \in 1..Len(a_docs) :
          OkCalls[i].name = ExpectedPartName(a_docs[i].chunk)

\* a record for the second chunk of a named source, after a retry
C27_Witness ==
    /\ source = "talk.m4a"
    /\ \E i \in 1..Len(a_docs) :
          /\ a_docs[i].chunk = 1
          /\ OkCalls[i].name = "talk.m4a_part_1.mp3"
    /\ \E i \in 1..Len(a_calls) :
          ~a_calls[i].ok /\ a_calls[i].name = "talk.m4a_part_1.mp3"

\* ---- load and lazy_load ----

\* the page ranges a sequence of calls asked for
RangesOf(calls) ==
    [i \in 1..Len(calls) |-> <<calls[i].start, calls[i].length>>]

\* C28: for the same file, split mode and output type, load() and a full
\* iteration of lazy_load() issue the same sequence of remote calls (same page
\* ranges) and return the same sequence of records.
C28_LoadAndLazyLoadAgree ==
    (prev.ran /\ entry = "lazy_load" /\ l_pc = "done" /\ prev.err = "") =>
        /\ RangesOf(l_calls) = RangesOf(prev.calls)
        /\ l_docs = prev.docs

\* ---- none mode and the batch size ----

FailedAmong(cs) == {i \in 1..Len(cs) : ~cs[i].ok}

\* C30: a delay of 5 seconds follows every failed attempt, the third and last
\* of a chunk included: the run has slept 5 seconds for each failed call made
\* so far, a chunk that has failed j times (1 <= j <= 3) accounts for j
\* delays, and when a chunk has been given up after 3 failures the next chunk
\* starts 15 seconds later, not 10.
C30_DelayAfterEveryFailure ==
    /\ slept = 5 * Cardinality(FailedAmong(a_calls))
    /\ \A k \in {a_chunks[i].index : i \in 1..Len(a_chunks)} :
          Cardinality(FailedAmong(CallsFor(k))) \in 0..3
    /\ (a_pc = "loop" /\ a_calls # <<>> /\ a_docs = <<>>
            /\ a_calls[Len(a_calls)].chunk = 0) =>
          (Len(a_calls) = 3 /\ slept = 15)

\* the first chunk has been given up after three failures and three delays
C30_Witness ==
    /\ a_pc = "loop"
    /\ Len(a_calls) = 3
    /\ AllFailed(a_calls)
    /\ slept = 15

\* ---- termination for every batch size ----

\* lazy_parse has returned or raised
Terminated == l_pc \in {"done", "raised"}

\* C31: in element and page mode on a PDF of N pages lazy_parse terminates
\* for every batch size, 0 and negative values included: a fully iterated run
\* returns or raises, it never makes more than N remote calls, and a run that
\* returned with a batch size b >= 1 made exactly ceil(N / b) calls.
C31_TerminatesForEveryBatchSize ==
    /\ [](/\ Len(l_calls) <= number_of_pages
          /\ (l_pc = "done" /\ batch_arg >= 1) =>
                Len(l_calls) = (number_of_pages + batch_arg - 1) \div batch_arg)
    /\ <>Terminated

\* a 3-page run with batch size 0 has returned after 3 calls
C31_Witness ==
    /\ l_pc = "done"
    /\ batch_arg = 0
    /\ number_of_pages = 3
    /\ Len(l_calls) = 3

\* ---- the payload of a retry ----

\* C32: every attempt on a chunk, the second and third included, submits the
\* chunk's complete payload: the stream handed to a call is at offset 0, and
\* it has the name and the bytes (the same range of the audio) of the stream
\* handed to the first attempt on that chunk.
C32_RetrySendsWholePayload ==
    \A i \in 1..Len(a_calls) :
        /\ a_calls[i].pos = 0
        /\ \A j \in 1..i :
              a_calls[j].chunk = a_calls[i].chunk =>
                  /\ a_calls[j].name = a_calls[i].name
                  /\ a_calls[j].start = a_calls[i].start
                  /\ a_calls[j].length = a_calls[i].length

====
